---- MODULE Spec2Model ----
(***************************************************************************)
(* Edit-permission lifecycle of the document-management backend:           *)
(* the canEdit middleware, the edit-request controller (create, approve,   *)
(* reject) and the document create/update/delete handlers, over the        *)
(* relational store described by prisma/schema.prisma.                     *)
(*                                                                         *)
(* Every handler is an async function; the store calls it awaits are the   *)
(* points where other requests interleave, so a handler is one action per  *)
(* awaited store call that a claim distinguishes.  Time is in              *)
(* milliseconds, as in the source; the clock advances in steps of TickMs.  *)
(***************************************************************************)
EXTENDS Integers, FiniteSets, Sequences, TLC

\* ---------------------------------------------------------------- bounds
MaxTicks == 4
MaxRequests == 2
MaxHourTicks == 2

\* ------------------------------------------------------- program constants
initialWindowMs == 24 * 60 * 60 * 1000
DEFAULT_EDIT_DURATION_MS == 24 * 60 * 60 * 1000

\* granularity of the modelled clock: half of the 24 hour window
TickMs == 12 * 60 * 60 * 1000
HourMs == 60 * 60 * 1000

\* JS undefined / SQL NULL for string-valued columns and parameters
Undefined == "undefined"
\* SQL NULL of the nullable DateTime column editableUntil
NoDate == -1

\* ------------------------------------------------------------ input sets
Procs == {1, 2}
Users == {"u1", "u2", "a1"}
DocTypes == {"invoice", "purchaseOrder", "stockRegister"}
DocIds == {"d1"}
DocKeys == DocTypes \X DocIds
ReqIds == 1..MaxRequests
\* what a caller may send as documentType / documentId / message
TypeInputs == DocTypes \cup {Undefined, "other"}
IdInputs == DocIds \cup {Undefined}
MessageInputs == {Undefined, "msg"}

\* users.role (schema: Role enum, default USER)
Role(u) == IF u = "a1" THEN "ADMIN" ELSE "USER"

VARIABLES
  now,          \* Date.now()
  documents,    \* invoices, purchase_orders, stock_register_entries rows, keyed <<type, id>>
  editRequests, \* edit_requests rows, keyed by id
  nextId,       \* the next uuid the store hands out
  pc,           \* position of each in-flight handler
  local,        \* parameters and locals of each in-flight handler
  response,     \* the last HTTP response sent
  io,           \* whether global.io holds a Socket.IO server
  published,    \* the event handed to global.io in this step
  files         \* the files in the uploads directory

vars == <<now, documents, editRequests, nextId, pc, local, response, io, published, files>>

\* ------------------------------------------------------------- helpers
Put(f, k, v) == [x \in (DOMAIN f) \cup {k} |-> IF x = k THEN v ELSE f[x]]
Remove(f, S) == [x \in (DOMAIN f) \ S |-> f[x]]
EmptyMap == [x \in {} |-> Undefined]

NoLocal == [op |-> "none", user |-> Undefined, documentType |-> Undefined,
            documentId |-> Undefined, msg |-> Undefined, id |-> 0,
            editableUntil |-> NoDate]

\* no response is sent in this step
NoResponse == [op |-> "none", user |-> Undefined, status |-> 0, reason |-> "none",
               id |-> 0, needsPermissionRequest |-> FALSE]

\* res.status(status).json({message: reason, ...}) to the request of req.user
Respond(op, user, status, reason) ==
  [NoResponse EXCEPT !.op = op, !.user = user, !.status = status, !.reason = reason]

\* a response about the edit request id (the route's :id, or the id of the created row)
RespondWith(op, user, status, reason, id) ==
  [Respond(op, user, status, reason) EXCEPT !.id = id]

\* no event is emitted in this step
NoEvent == [channel |-> "none", name |-> "none", id |-> 0, status |-> "none"]

\* global.io.to('admin-room').emit('new-edit-request', {editRequest})
NewRequestEvent(id) ==
  [channel |-> "admin-room", name |-> "new-edit-request", id |-> id, status |-> "PENDING"]

\* global.io.emit(`edit-request-update-${id}`, {editRequest, status}): a broadcast whose
\* name carries the id of the request
UpdateEvent(id, status) ==
  [channel |-> "broadcast", name |-> "edit-request-update", id |-> id, status |-> status]

\* !v for the values a request carries: a missing field and the empty string are falsy
Falsy_undefinedOnly(v) == v = Undefined

Falsy(v) == v \in {Undefined, ""}

\* ------------------------------------------------------------ middleware
\* variant: every authenticated user passes
adminOnly_anyUser(user) == TRUE

adminOnly(user) == Role(user) = "ADMIN"

\* variant: the grant never expires (editableUntil is not consulted)
canEdit_noExpiry(document, user, t) ==
  LET isOwner == document.userId = user
      isAdmin == Role(user) = "ADMIN"
      isWithin24Hours == (t - document.createdAt) < initialWindowMs
      allowedToEdit == isAdmin \/ (isOwner /\ (isWithin24Hours \/ document.allowEditing))
  IN [allowed |-> allowedToEdit, needsPermissionRequest |-> ~allowedToEdit /\ isOwner]

\* variant: an administrator is held to the owner's rules
canEdit_noAdminBypass(document, user, t) ==
  LET isOwner == document.userId = user
      isWithinInitialWindow == (t - document.createdAt) < initialWindowMs
      hasValidAdminPermission ==
        document.allowEditing
        /\ (document.editableUntil = NoDate \/ t < document.editableUntil)
      allowedToEdit == isOwner /\ (isWithinInitialWindow \/ hasValidAdminPermission)
  IN [allowed |-> allowedToEdit, needsPermissionRequest |-> ~allowedToEdit /\ isOwner]

\* variant: ownership is not tested
canEdit_noOwnerCheck(document, user, t) ==
  LET isAdmin == Role(user) = "ADMIN"
      isWithinInitialWindow == (t - document.createdAt) < initialWindowMs
      hasValidAdminPermission ==
        document.allowEditing
        /\ (document.editableUntil = NoDate \/ t < document.editableUntil)
      allowedToEdit == isAdmin \/ isWithinInitialWindow \/ hasValidAdminPermission
  IN [allowed |-> allowedToEdit, needsPermissionRequest |-> FALSE]

\* variant: the grant of an administrator is not consulted
canEdit_windowOnly(document, user, t) ==
  LET isOwner == document.userId = user
      isAdmin == Role(user) = "ADMIN"
      isWithinInitialWindow == (t - document.createdAt) < initialWindowMs
      allowedToEdit == isAdmin \/ (isOwner /\ isWithinInitialWindow)
  IN [allowed |-> allowedToEdit,
      needsPermissionRequest |-> ~allowedToEdit /\ isOwner /\ ~document.allowEditing]

\* variant: every denied owner is told to request permission
canEdit_flagOnEveryDenial(document, user, t) ==
  LET isOwner == document.userId = user
      isAdmin == Role(user) = "ADMIN"
      isWithinInitialWindow == (t - document.createdAt) < initialWindowMs
      hasValidAdminPermission ==
        document.allowEditing
        /\ (document.editableUntil = NoDate \/ t < document.editableUntil)
      allowedToEdit == isAdmin \/ (isOwner /\ (isWithinInitialWindow \/ hasValidAdminPermission))
  IN [allowed |-> allowedToEdit, needsPermissionRequest |-> ~allowedToEdit /\ isOwner]

canEdit(document, user, t) ==
  LET isOwner == document.userId = user
      isAdmin == Role(user) = "ADMIN"
      isWithinInitialWindow == (t - document.createdAt) < initialWindowMs
      hasValidAdminPermission ==
        document.allowEditing
        /\ (document.editableUntil = NoDate \/ t < document.editableUntil)
      allowedToEdit == IF isAdmin THEN TRUE
                       ELSE IF isOwner
                            THEN isWithinInitialWindow \/ hasValidAdminPermission
                            ELSE FALSE
      needsPermission == isOwner /\ ~isWithinInitialWindow /\ ~document.allowEditing
  IN [allowed |-> allowedToEdit,
      needsPermissionRequest |-> (~allowedToEdit) /\ needsPermission]

\* ------------------------------------------------------------ the store
\* variant: every create call leaves editableUntil to the schema
NewDocument_schemaDefaults(documentType, userId, t, fileUrl) ==
  [userId |-> userId, createdAt |-> t, allowEditing |-> FALSE, editableUntil |-> NoDate,
   fileUrl |-> fileUrl]

\* the row a create call inserts: allowEditing takes its default false; createInvoice
\* leaves editableUntil NULL, createPurchaseOrder and createStockRegister write
\* new Date(Date.now() + 24 * 60 * 60 * 1000); fileUrl is the path of the uploaded file,
\* or NULL
NewDocument(documentType, userId, t, fileUrl) ==
  [userId |-> userId, createdAt |-> t, allowEditing |-> FALSE,
   editableUntil |-> IF documentType = "invoice" THEN NoDate
                     ELSE t + 24 * 60 * 60 * 1000,
   fileUrl |-> fileUrl]

\* variant: the document id is written into all three foreign key columns
RequestData_allColumns(documentType, documentId, requestMessage, requestedById) ==
  [status |-> "PENDING",
   requestMessage |-> requestMessage,
   responseMessage |-> Undefined,
   requestedById |-> requestedById,
   adminUserId |-> Undefined,
   invoiceId |-> documentId,
   purchaseOrderId |-> documentId,
   stockRegisterId |-> documentId]

\* the foreign key columns createEditRequest fills for a document type
RequestData(documentType, documentId, requestMessage, requestedById) ==
  [status |-> "PENDING",
   requestMessage |-> requestMessage,
   responseMessage |-> Undefined,
   requestedById |-> requestedById,
   adminUserId |-> Undefined,
   invoiceId |-> IF documentType = "invoice" THEN documentId ELSE Undefined,
   purchaseOrderId |-> IF documentType = "purchaseOrder" THEN documentId ELSE Undefined,
   stockRegisterId |-> IF documentType = "stockRegister" THEN documentId ELSE Undefined]

\* the document an edit request points at, in the order approveEditRequest tests the columns
HasTarget(r) ==
  r.invoiceId # Undefined \/ r.purchaseOrderId # Undefined \/ r.stockRegisterId # Undefined

TargetKey(r) ==
  IF r.invoiceId # Undefined THEN <<"invoice", r.invoiceId>>
  ELSE IF r.purchaseOrderId # Undefined THEN <<"purchaseOrder", r.purchaseOrderId>>
  ELSE <<"stockRegister", r.stockRegisterId>>

\* requests whose foreign key references the document row (relation with onDelete: Cascade)
RequestsOf(reqs, key) ==
  {i \in DOMAIN reqs :
     \/ key[1] = "invoice" /\ reqs[i].invoiceId = key[2]
     \/ key[1] = "purchaseOrder" /\ reqs[i].purchaseOrderId = key[2]
     \/ key[1] = "stockRegister" /\ reqs[i].stockRegisterId = key[2]}

\* variant: the foreign key columns carry no unique index
UniqueViolation_noIndex(reqs, data) == FALSE

\* variant: only invoiceId carries the unique index
UniqueViolation_invoiceOnly(reqs, data) ==
  \E i \in DOMAIN reqs :
     data.invoiceId # Undefined /\ reqs[i].invoiceId = data.invoiceId

\* @unique on invoiceId, purchaseOrderId and stockRegisterId (NULLs never collide)
UniqueViolation(reqs, data) ==
  \E i \in DOMAIN reqs :
     \/ data.invoiceId # Undefined /\ reqs[i].invoiceId = data.invoiceId
     \/ data.purchaseOrderId # Undefined /\ reqs[i].purchaseOrderId = data.purchaseOrderId
     \/ data.stockRegisterId # Undefined /\ reqs[i].stockRegisterId = data.stockRegisterId

\* variant: the OR branches of the other two columns match every row
ExistingPendingRequest_anyDocument(reqs, data) ==
  \E i \in DOMAIN reqs :
     reqs[i].status = "PENDING" /\ reqs[i].requestedById = data.requestedById

\* variant: the pending check is left out
ExistingPendingRequest_noCheck(reqs, data) == FALSE

\* findFirst({status: 'PENDING', requestedById, OR: [{invoiceId}, {purchaseOrderId}, {stockRegisterId}]})
\* an OR branch whose value is undefined carries no condition and is dropped
ExistingPendingRequest(reqs, data) ==
  \E i \in DOMAIN reqs :
     /\ reqs[i].status = "PENDING"
     /\ reqs[i].requestedById = data.requestedById
     /\ \/ data.invoiceId # Undefined /\ reqs[i].invoiceId = data.invoiceId
        \/ data.purchaseOrderId # Undefined /\ reqs[i].purchaseOrderId = data.purchaseOrderId
        \/ data.stockRegisterId # Undefined /\ reqs[i].stockRegisterId = data.stockRegisterId

Init ==
  /\ now = 0
  /\ documents = EmptyMap
  /\ editRequests = EmptyMap
  /\ nextId = 1
  /\ pc = [p \in Procs |-> "idle"]
  /\ local = [p \in Procs |-> NoLocal]
  /\ response = NoResponse
  /\ io = FALSE
  /\ published = NoEvent
  /\ files = {}

\* a handler has sent its response: the slot is free again
Finish(p, op, user, status, reason) ==
  /\ pc' = [pc EXCEPT ![p] = "idle"]
  /\ local' = [local EXCEPT ![p] = NoLocal]
  /\ response' = Respond(op, user, status, reason)

FinishWith(p, op, user, status, reason, id) ==
  /\ pc' = [pc EXCEPT ![p] = "idle"]
  /\ local' = [local EXCEPT ![p] = NoLocal]
  /\ response' = RespondWith(op, user, status, reason, id)

\* the tail of a handler that has written the store: if (global.io) emit(event), then the
\* success response. The emit runs inside the handler's try block, so a throwing emit
\* ends in the catch and its failure response; without global.io the emit is skipped.
NotifyThenRespond(p, event, success, failure) ==
  /\ pc' = [pc EXCEPT ![p] = "idle"]
  /\ local' = [local EXCEPT ![p] = NoLocal]
  /\ IF io
     THEN \E emitThrows \in BOOLEAN :
            IF emitThrows
            THEN published' = NoEvent /\ response' = failure
            ELSE published' = event /\ response' = success
     ELSE published' = NoEvent /\ response' = success

\* a request is served by the first free slot (the slots are interchangeable)
Free(p) == pc[p] = "idle" /\ \A q \in Procs : q < p => pc[q] # "idle"

Tick ==
  /\ now < MaxTicks * TickMs
  /\ now' = now + TickMs
  /\ response' = NoResponse
  /\ published' = NoEvent
  /\ UNCHANGED <<documents, editRequests, nextId, pc, local, io, files>>

\* the clock read an hour later
TickHour ==
  /\ now % TickMs < MaxHourTicks * HourMs
  /\ now' = now + HourMs
  /\ response' = NoResponse
  /\ published' = NoEvent
  /\ UNCHANGED <<documents, editRequests, nextId, pc, local, io, files>>

\* ------------------------------------------------- editRequestController
\* ids the store still has to hand out to the create calls in flight
InFlightCreates == Cardinality({q \in Procs : pc[q] \in {"ce_findFirst", "ce_create"}})

\* document.userId !== requestedById
IsRequesterOwner_orAdmin(document, requestedById) ==
  document.userId = requestedById \/ Role(requestedById) = "ADMIN"

IsRequesterOwner(document, requestedById) == document.userId = requestedById

\* createEditRequest up to its first store read: validation, document lookup, ownership
createEditRequest(p, user, documentType, documentId, requestMessage) ==
  /\ Free(p)
  /\ nextId + InFlightCreates <= MaxRequests
  /\ IF Falsy(documentType) \/ Falsy(documentId) \/ Falsy(requestMessage)
     THEN Finish(p, "createEditRequest", user, 400, "required")
     ELSE IF documentType \notin DocTypes
     THEN Finish(p, "createEditRequest", user, 400, "invalid document type")
     ELSE IF <<documentType, documentId>> \notin DOMAIN documents
     THEN Finish(p, "createEditRequest", user, 404, "not found")
     ELSE IF ~IsRequesterOwner(documents[<<documentType, documentId>>], user)
     THEN Finish(p, "createEditRequest", user, 403, "not authorized")
     ELSE /\ pc' = [pc EXCEPT ![p] = "ce_findFirst"]
          /\ local' = [local EXCEPT ![p] =
                 [NoLocal EXCEPT !.op = "createEditRequest", !.user = user,
                                 !.documentType = documentType,
                                 !.documentId = documentId, !.msg = requestMessage]]
          /\ response' = NoResponse
  /\ published' = NoEvent
  /\ UNCHANGED <<now, documents, editRequests, nextId, io, files>>

\* req.params of POST /:id/request-edit after requestEditPermission has set the document
\* type: the route binds :id, and no parameter is named documentId
RequestEditParams(documentType, id) ==
  [id |-> id, documentType |-> documentType, documentId |-> Undefined]

\* POST /:id/request-edit : auth, requestEditPermission, which sets req.params.documentType
\* and calls createEditRequest(req, res)
requestEditPermission(p, user, documentType, id, requestMessage) ==
  LET params == RequestEditParams(documentType, id)
  IN createEditRequest(p, user, params.documentType, params.documentId, requestMessage)

\* the data object createEditRequest has built for its call
CreateData(p) ==
  RequestData(local[p].documentType, local[p].documentId, local[p].msg, local[p].user)

\* createEditRequest: the pending check (findFirst) and its 400
createFindFirst(p) ==
  /\ pc[p] = "ce_findFirst"
  /\ IF ExistingPendingRequest(editRequests, CreateData(p))
     THEN Finish(p, "createEditRequest", local[p].user, 400, "already pending")
     ELSE /\ pc' = [pc EXCEPT ![p] = "ce_create"]
          /\ response' = NoResponse
          /\ UNCHANGED local
  /\ published' = NoEvent
  /\ UNCHANGED <<now, documents, editRequests, nextId, io, files>>

\* createEditRequest: editRequest.create, the notification and the response
createInsert(p) ==
  /\ pc[p] = "ce_create"
  /\ IF UniqueViolation(editRequests, CreateData(p))
     THEN /\ Finish(p, "createEditRequest", local[p].user, 409, "already exists")
          /\ published' = NoEvent
          /\ UNCHANGED <<editRequests, nextId>>
     ELSE IF <<local[p].documentType, local[p].documentId>> \notin DOMAIN documents
     THEN \* foreign key violation: the document row is gone
          /\ Finish(p, "createEditRequest", local[p].user, 500, "server error")
          /\ published' = NoEvent
          /\ UNCHANGED <<editRequests, nextId>>
     ELSE /\ editRequests' = Put(editRequests, nextId, CreateData(p))
          /\ nextId' = nextId + 1
          /\ NotifyThenRespond(p, NewRequestEvent(nextId),
               RespondWith("createEditRequest", local[p].user, 201, "submitted", nextId),
               Respond("createEditRequest", local[p].user, 500, "server error"))
  /\ UNCHANGED <<now, documents, io, files>>

\* approveEditRequest up to the transaction's read of the request
approveEditRequest(p, user, id, responseMessage) ==
  /\ Free(p)
  /\ IF ~adminOnly(user)
     THEN FinishWith(p, "approveEditRequest", user, 403, "admin only", id)
     ELSE IF id \notin DOMAIN editRequests
     THEN FinishWith(p, "approveEditRequest", user, 404, "not found", id)
     ELSE IF editRequests[id].status # "PENDING"
     THEN FinishWith(p, "approveEditRequest", user, 400, "already resolved", id)
     ELSE IF ~HasTarget(editRequests[id])
     THEN FinishWith(p, "approveEditRequest", user, 400, "invalid edit request", id)
     ELSE /\ pc' = [pc EXCEPT ![p] = "ap_update"]
          /\ local' = [local EXCEPT ![p] =
                 [NoLocal EXCEPT !.op = "approveEditRequest", !.user = user,
                                 !.documentType = TargetKey(editRequests[id])[1],
                                 !.documentId = TargetKey(editRequests[id])[2],
                                 !.msg = responseMessage, !.id = id,
                                 !.editableUntil = now + DEFAULT_EDIT_DURATION_MS]]
          /\ response' = NoResponse
  /\ published' = NoEvent
  /\ UNCHANGED <<now, documents, editRequests, nextId, io, files>>

\* variant: only the flag is written
GrantDocument_flagOnly(doc, editableUntil) == [doc EXCEPT !.allowEditing = TRUE]

\* data: { allowEditing: true, editableUntil }
GrantDocument(doc, editableUntil) ==
  [doc EXCEPT !.allowEditing = TRUE, !.editableUntil = editableUntil]

\* variant: only the status is written
ResolveRequest_statusOnly(r, status, responseMessage, adminUserId) ==
  [r EXCEPT !.status = status]

\* variant: the acting administrator is not recorded
ResolveRequest_noAdmin(r, status, responseMessage, adminUserId) ==
  [r EXCEPT !.status = status,
            !.responseMessage = IF responseMessage = Undefined THEN @ ELSE responseMessage]

\* data: { status, responseMessage, adminUserId }; an undefined value leaves the column alone
ResolveRequest(r, status, responseMessage, adminUserId) ==
  [r EXCEPT !.status = status,
            !.responseMessage = IF responseMessage = Undefined THEN @ ELSE responseMessage,
            !.adminUserId = adminUserId]

\* variant: the two updates run outside a transaction, the document first
approveCommit_noTransaction(p) ==
  /\ pc[p] = "ap_update"
  /\ \E storeFails \in BOOLEAN :
       LET key == <<local[p].documentType, local[p].documentId>>
           id == local[p].id
       IN IF key \notin DOMAIN documents
          THEN /\ FinishWith(p, "approveEditRequest", local[p].user, 500, "server error", local[p].id)
               /\ UNCHANGED <<documents, editRequests>>
          ELSE IF storeFails \/ id \notin DOMAIN editRequests
          THEN /\ documents' = [documents EXCEPT ![key] =
                                   [@ EXCEPT !.allowEditing = TRUE,
                                             !.editableUntil = local[p].editableUntil]]
               /\ FinishWith(p, "approveEditRequest", local[p].user, 500, "server error", local[p].id)
               /\ UNCHANGED editRequests
          ELSE /\ documents' = [documents EXCEPT ![key] =
                                   [@ EXCEPT !.allowEditing = TRUE,
                                             !.editableUntil = local[p].editableUntil]]
               /\ editRequests' = [editRequests EXCEPT ![id] =
                                      [@ EXCEPT !.status = "APPROVED",
                                                !.adminUserId = local[p].user]]
               /\ pc' = [pc EXCEPT ![p] = "ap_respond"]
               /\ response' = NoResponse
               /\ UNCHANGED local
  /\ published' = NoEvent
  /\ UNCHANGED <<now, nextId, io, files>>

\* approveEditRequest: the two updates of the transaction and its commit, or its rollback
approveCommit(p) ==
  /\ pc[p] = "ap_update"
  /\ \E storeFails \in BOOLEAN :
       LET key == <<local[p].documentType, local[p].documentId>>
           id == local[p].id
       IN IF storeFails \/ key \notin DOMAIN documents \/ id \notin DOMAIN editRequests
          THEN /\ FinishWith(p, "approveEditRequest", local[p].user, 500, "server error", local[p].id)
               /\ UNCHANGED <<documents, editRequests>>
          ELSE /\ documents' = [documents EXCEPT ![key] =
                                   GrantDocument(@, local[p].editableUntil)]
               /\ editRequests' = [editRequests EXCEPT ![id] =
                                      ResolveRequest(@, "APPROVED", local[p].msg, local[p].user)]
               /\ pc' = [pc EXCEPT ![p] = "ap_respond"]
               /\ response' = NoResponse
               /\ UNCHANGED local
  /\ published' = NoEvent
  /\ UNCHANGED <<now, nextId, io, files>>

\* approveEditRequest after the transaction: the notification and the 200
approveRespond(p) ==
  /\ pc[p] = "ap_respond"
  /\ NotifyThenRespond(p, UpdateEvent(local[p].id, "APPROVED"),
       RespondWith("approveEditRequest", local[p].user, 200, "approved", local[p].id),
       RespondWith("approveEditRequest", local[p].user, 500, "server error", local[p].id))
  /\ UNCHANGED <<now, documents, editRequests, nextId, io, files>>

\* rejectEditRequest up to its read of the request
rejectEditRequest(p, user, id, responseMessage) ==
  /\ Free(p)
  /\ IF ~adminOnly(user)
     THEN FinishWith(p, "rejectEditRequest", user, 403, "admin only", id)
     ELSE IF Falsy(responseMessage)
     THEN FinishWith(p, "rejectEditRequest", user, 400, "required", id)
     ELSE IF id \notin DOMAIN editRequests
     THEN FinishWith(p, "rejectEditRequest", user, 404, "not found", id)
     ELSE IF editRequests[id].status # "PENDING"
     THEN FinishWith(p, "rejectEditRequest", user, 400, "already resolved", id)
     ELSE /\ pc' = [pc EXCEPT ![p] = "rj_update"]
          /\ local' = [local EXCEPT ![p] =
                 [NoLocal EXCEPT !.op = "rejectEditRequest", !.user = user,
                                 !.msg = responseMessage, !.id = id]]
          /\ response' = NoResponse
  /\ published' = NoEvent
  /\ UNCHANGED <<now, documents, editRequests, nextId, io, files>>

\* rejectEditRequest: the update of the request, the notification and the 200
rejectUpdate(p) ==
  /\ pc[p] = "rj_update"
  /\ IF local[p].id \notin DOMAIN editRequests
     THEN /\ FinishWith(p, "rejectEditRequest", local[p].user, 500, "server error", local[p].id)
          /\ published' = NoEvent
          /\ UNCHANGED editRequests
     ELSE /\ editRequests' = [editRequests EXCEPT ![local[p].id] =
                                 ResolveRequest(@, "REJECTED", local[p].msg, local[p].user)]
          /\ NotifyThenRespond(p, UpdateEvent(local[p].id, "REJECTED"),
               RespondWith("rejectEditRequest", local[p].user, 200, "rejected", local[p].id),
               RespondWith("rejectEditRequest", local[p].user, 500, "server error", local[p].id))
  /\ UNCHANGED <<now, documents, nextId, io, files>>

\* what a caller may send as the status filter of the listing
StatusInputs == {Undefined, "PENDING", "other"}

\* GET / : auth, adminOnly, getAllEditRequests (a read of the table)
getAllEditRequests(user, status) ==
  /\ IF ~adminOnly(user)
     THEN response' = Respond("getAllEditRequests", user, 403, "admin only")
     ELSE IF status \notin {Undefined, "PENDING", "APPROVED", "REJECTED", "all"}
     THEN response' = Respond("getAllEditRequests", user, 400, "invalid status filter")
     ELSE response' = Respond("getAllEditRequests", user, 200, "list")
  /\ published' = NoEvent
  /\ UNCHANGED <<now, documents, editRequests, nextId, pc, local, io, files>>

\* GET /:id : auth, adminOnly, getEditRequestById (a read of one row)
getEditRequestById(user, id) ==
  /\ IF ~adminOnly(user)
     THEN response' = RespondWith("getEditRequestById", user, 403, "admin only", id)
     ELSE IF id \notin DOMAIN editRequests
     THEN response' = RespondWith("getEditRequestById", user, 404, "not found", id)
     ELSE response' = RespondWith("getEditRequestById", user, 200, "found", id)
  /\ published' = NoEvent
  /\ UNCHANGED <<now, documents, editRequests, nextId, pc, local, io, files>>

\* ------------------------------------------------- document controllers
\* multer stores an upload under a name of its own: no file and no record carries it
FreshUpload(file) ==
  \/ file = Undefined
  \/ /\ file \notin files
     /\ \A key \in DOMAIN documents : documents[key].fileUrl # file

\* createInvoice / createPurchaseOrder / createStockRegister; file is the upload that
\* multer has stored for the request (req.file), if any
createDocument(user, key, file) ==
  /\ FreshUpload(file)
  /\ IF key \in DOMAIN documents
     THEN /\ response' = Respond("createDocument", user, 400, "already exists")
          /\ UNCHANGED <<documents, files>>
     ELSE /\ documents' = Put(documents, key, NewDocument(key[1], user, now, file))
          /\ files' = files \cup ({file} \ {Undefined})
          /\ response' = Respond("createDocument", user, 201, "created")
  /\ published' = NoEvent
  /\ UNCHANGED <<now, editRequests, nextId, pc, local, io>>

\* the uploads directory after an update whose record update has committed: the new file
\* is kept and the one it replaces is unlinked
FilesAfterUpdate(stored, oldFileUrl, file) ==
  IF file = Undefined THEN stored ELSE (stored \cup {file}) \ {oldFileUrl}

\* the uploads directory after an update whose record update has thrown: the catch unlinks
\* the new file; updateInvoice has not touched the old one, updatePurchaseOrder and
\* updateStockRegister have unlinked it before the update
FilesAfterFailedUpdate(documentType, stored, oldFileUrl, file) ==
  IF file = Undefined \/ documentType = "invoice"
  THEN stored
  ELSE stored \ {oldFileUrl}

\* PUT /:id of the invoice routes that run auth, upload, updateInvoice: the controller
\* looks the invoice up and updates it, and tests no permission itself
updateInvoice(user, key, file, storeFails) ==
  /\ key[1] = "invoice"
  /\ FreshUpload(file)
  /\ IF key \notin DOMAIN documents
     THEN /\ response' = Respond("updateDocument", user, 404, "not found")
          /\ UNCHANGED <<documents, files>>
     ELSE IF storeFails
     THEN /\ response' = Respond("updateDocument", user, 500, "server error")
          /\ files' = FilesAfterFailedUpdate(key[1], files, documents[key].fileUrl, file)
          /\ UNCHANGED documents
     ELSE /\ response' = Respond("updateDocument", user, 200, "updated")
          /\ documents' = [documents EXCEPT ![key].fileUrl =
                             IF file = Undefined THEN @ ELSE file]
          /\ files' = FilesAfterUpdate(files, documents[key].fileUrl, file)
  /\ published' = NoEvent
  /\ UNCHANGED <<now, editRequests, nextId, pc, local, io>>

\* variant: an update made under a grant uses the grant up
updateDocument_consumesGrant(user, key, file, storeFails) ==
  /\ FreshUpload(file)
  /\ IF key \notin DOMAIN documents
     THEN /\ response' = Respond("updateDocument", user, 404, "not found")
          /\ UNCHANGED <<documents, files>>
     ELSE LET decision == canEdit(documents[key], user, now)
              oldFileUrl == documents[key].fileUrl
          IN IF ~decision.allowed
             THEN /\ response' = [Respond("updateDocument", user, 403, "edit not allowed")
                                    EXCEPT !.needsPermissionRequest =
                                             decision.needsPermissionRequest]
                  /\ UNCHANGED <<documents, files>>
             ELSE IF storeFails
             THEN /\ response' = Respond("updateDocument", user, 500, "server error")
                  /\ files' = FilesAfterFailedUpdate(key[1], files, oldFileUrl, file)
                  /\ UNCHANGED documents
             ELSE /\ response' = Respond("updateDocument", user, 200, "updated")
                  /\ documents' = [documents EXCEPT
                                     ![key].fileUrl = IF file = Undefined THEN @ ELSE file,
                                     ![key].allowEditing = FALSE]
                  /\ files' = FilesAfterUpdate(files, oldFileUrl, file)
  /\ published' = NoEvent
  /\ UNCHANGED <<now, editRequests, nextId, pc, local, io>>

\* variant: the update stamps the record with the time of the update
updateDocument_restampsCreatedAt(user, key, file, storeFails) ==
  /\ FreshUpload(file)
  /\ IF key \notin DOMAIN documents
     THEN /\ response' = Respond("updateDocument", user, 404, "not found")
          /\ UNCHANGED <<documents, files>>
     ELSE LET decision == canEdit(documents[key], user, now)
              oldFileUrl == documents[key].fileUrl
          IN IF ~decision.allowed
             THEN /\ response' = [Respond("updateDocument", user, 403, "edit not allowed")
                                    EXCEPT !.needsPermissionRequest =
                                             decision.needsPermissionRequest]
                  /\ UNCHANGED <<documents, files>>
             ELSE IF storeFails
             THEN /\ response' = Respond("updateDocument", user, 500, "server error")
                  /\ files' = FilesAfterFailedUpdate(key[1], files, oldFileUrl, file)
                  /\ UNCHANGED documents
             ELSE /\ response' = Respond("updateDocument", user, 200, "updated")
                  /\ documents' = [documents EXCEPT
                                     ![key].fileUrl = IF file = Undefined THEN @ ELSE file,
                                     ![key].createdAt = now]
                  /\ files' = FilesAfterUpdate(files, oldFileUrl, file)
  /\ published' = NoEvent
  /\ UNCHANGED <<now, editRequests, nextId, pc, local, io>>

\* PUT /:id : auth, canEdit, upload, then updateInvoice / updatePurchaseOrder /
\* updateStockRegister; file is the upload of the request, storeFails whether the update of
\* the record throws
updateDocument(user, key, file, storeFails) ==
  /\ FreshUpload(file)
  /\ IF key \notin DOMAIN documents
     THEN /\ response' = Respond("updateDocument", user, 404, "not found")
          /\ UNCHANGED <<documents, files>>
     ELSE LET decision == canEdit(documents[key], user, now)
              oldFileUrl == documents[key].fileUrl
          IN IF ~decision.allowed
             THEN /\ response' = [Respond("updateDocument", user, 403, "edit not allowed")
                                    EXCEPT !.needsPermissionRequest =
                                             decision.needsPermissionRequest]
                  /\ UNCHANGED <<documents, files>>
             ELSE IF storeFails
             THEN /\ response' = Respond("updateDocument", user, 500, "server error")
                  /\ files' = FilesAfterFailedUpdate(key[1], files, oldFileUrl, file)
                  /\ UNCHANGED documents
             ELSE /\ response' = Respond("updateDocument", user, 200, "updated")
                  /\ documents' = [documents EXCEPT ![key].fileUrl =
                                     IF file = Undefined THEN @ ELSE file]
                  /\ files' = FilesAfterUpdate(files, oldFileUrl, file)
  /\ published' = NoEvent
  /\ UNCHANGED <<now, editRequests, nextId, pc, local, io>>

\* variant: the relation does not cascade
deleteDocument_noCascade(user, key) ==
  /\ IF key \notin DOMAIN documents
     THEN /\ response' = Respond("deleteDocument", user, 404, "not found")
          /\ UNCHANGED <<documents, files>>
     ELSE IF Role(user) # "ADMIN" /\ documents[key].userId # user
     THEN /\ response' = Respond("deleteDocument", user, 403, "not authorized")
          /\ UNCHANGED <<documents, files>>
     ELSE /\ files' = files \ {documents[key].fileUrl}
          /\ documents' = Remove(documents, {key})
          /\ response' = Respond("deleteDocument", user, 200, "deleted")
  /\ published' = NoEvent
  /\ UNCHANGED <<now, editRequests, nextId, pc, local, io>>

\* variant: every authenticated user may delete
deleteDocument_anyUser(user, key) ==
  /\ IF key \notin DOMAIN documents
     THEN /\ response' = Respond("deleteDocument", user, 404, "not found")
          /\ UNCHANGED <<documents, editRequests, files>>
     ELSE /\ files' = files \ {documents[key].fileUrl}
          /\ documents' = Remove(documents, {key})
          /\ editRequests' = Remove(editRequests, RequestsOf(editRequests, key))
          /\ response' = Respond("deleteDocument", user, 200, "deleted")
  /\ published' = NoEvent
  /\ UNCHANGED <<now, nextId, pc, local, io>>

\* deleteInvoice / deletePurchaseOrder / deleteStockRegister: the attachment is unlinked, the
\* row is deleted and the relation cascades
deleteDocument(user, key) ==
  /\ IF key \notin DOMAIN documents
     THEN /\ response' = Respond("deleteDocument", user, 404, "not found")
          /\ UNCHANGED <<documents, editRequests, files>>
     ELSE IF Role(user) # "ADMIN" /\ documents[key].userId # user
     THEN /\ response' = Respond("deleteDocument", user, 403, "not authorized")
          /\ UNCHANGED <<documents, editRequests, files>>
     ELSE /\ files' = files \ {documents[key].fileUrl}
          /\ documents' = Remove(documents, {key})
          /\ editRequests' = Remove(editRequests, RequestsOf(editRequests, key))
          /\ response' = Respond("deleteDocument", user, 200, "deleted")
  /\ published' = NoEvent
  /\ UNCHANGED <<now, nextId, pc, local, io>>

\* ------------------------------------------------------- specifications
\* the requests the handler slots P serve; AM are the response messages sent with an approval
Handlers(P, AM) ==
  \/ \E p \in P, user \in Users, documentType \in TypeInputs,
        documentId \in IdInputs, requestMessage \in MessageInputs :
        createEditRequest(p, user, documentType, documentId, requestMessage)
  \/ \E p \in P : createFindFirst(p)
  \/ \E p \in P : createInsert(p)
  \/ \E p \in P, user \in Users, id \in ReqIds, responseMessage \in AM :
        approveEditRequest(p, user, id, responseMessage)
  \/ \E p \in P : approveCommit(p)
  \/ \E p \in P : approveRespond(p)
  \/ \E p \in P, user \in Users, id \in ReqIds, responseMessage \in MessageInputs :
        rejectEditRequest(p, user, id, responseMessage)
  \/ \E p \in P : rejectUpdate(p)

\* the document routes, for the documents K created by the users C
DocumentRoutes(C, K) ==
  \/ \E user \in C, key \in K : createDocument(user, key, Undefined)
  \/ \E user \in Users, key \in K : updateDocument(user, key, Undefined, FALSE)
  \/ \E user \in Users, key \in K : deleteDocument(user, key)

\* Spec: the workflow under interleaving. Two requests are in flight at a time, on an
\* invoice and a purchase order of user u1, within one reading of the clock.
WorkflowKeys == {<<"invoice", "d1">>, <<"purchaseOrder", "d1">>}

Next ==
  \/ Handlers(Procs, {"msg"})
  \/ DocumentRoutes({"u1"}, WorkflowKeys)

Spec == Init /\ [][Next]_vars

\* SpecSeq: one request at a time on one invoice, with the clock running; user u1 created
\* the invoice and a purchase order at instant 0
SeqMessages == {Undefined, "", "msg"}
SeqKey == <<"invoice", "d1">>

InitSeq ==
  /\ now = 0
  /\ documents = [key \in {SeqKey, <<"purchaseOrder", "d1">>} |->
                    NewDocument(key[1], "u1", 0, Undefined)]
  /\ editRequests = EmptyMap
  /\ nextId = 1
  /\ pc = [p \in Procs |-> "idle"]
  /\ local = [p \in Procs |-> NoLocal]
  /\ response = NoResponse
  /\ io = FALSE
  /\ published = NoEvent
  /\ files = {}

NextSeq ==
  \/ Tick
  \/ TickHour
  \/ \E user \in Users, requestMessage \in SeqMessages :
        createEditRequest(1, user, SeqKey[1], SeqKey[2], requestMessage)
  \/ createFindFirst(1)
  \/ createInsert(1)
  \/ \E user \in Users, id \in ReqIds, responseMessage \in SeqMessages :
        approveEditRequest(1, user, id, responseMessage)
  \/ approveCommit(1)
  \/ approveRespond(1)
  \/ \E user \in Users, id \in ReqIds, responseMessage \in SeqMessages :
        rejectEditRequest(1, user, id, responseMessage)
  \/ rejectUpdate(1)
  \/ \E user \in Users : updateDocument(user, SeqKey, Undefined, FALSE)

SpecSeq == InitSeq /\ [][NextSeq]_vars

\* SpecScope: one request at a time on three documents of user u1: two invoices and a
\* purchase order
ScopeKeys == {<<"invoice", "d1">>, <<"invoice", "d2">>, <<"purchaseOrder", "d1">>}

InitScope ==
  /\ now = 0
  /\ documents = [key \in ScopeKeys |-> NewDocument(key[1], "u1", 0, Undefined)]
  /\ editRequests = EmptyMap
  /\ nextId = 1
  /\ pc = [p \in Procs |-> "idle"]
  /\ local = [p \in Procs |-> NoLocal]
  /\ response = NoResponse
  /\ io = FALSE
  /\ published = NoEvent
  /\ files = {}

NextScope ==
  \/ \E user \in Users, key \in ScopeKeys :
        createEditRequest(1, user, key[1], key[2], "msg")
  \/ createFindFirst(1)
  \/ createInsert(1)
  \/ \E user \in Users, id \in ReqIds : rejectEditRequest(1, user, id, "msg")
  \/ rejectUpdate(1)

SpecScope == InitScope /\ [][NextScope]_vars

\* SpecNotify: the edit-request routes under interleaving on one invoice of user u1, with
\* and without a Socket.IO server in global.io
InitNotify ==
  /\ now = 0
  /\ documents = [key \in {SeqKey} |-> NewDocument(key[1], "u1", 0, Undefined)]
  /\ editRequests = EmptyMap
  /\ nextId = 1
  /\ pc = [p \in Procs |-> "idle"]
  /\ local = [p \in Procs |-> NoLocal]
  /\ response = NoResponse
  /\ io \in BOOLEAN
  /\ published = NoEvent
  /\ files = {}

NextNotify ==
  \/ \E p \in Procs, user \in Users :
        createEditRequest(p, user, SeqKey[1], SeqKey[2], "msg")
  \/ \E p \in Procs : createFindFirst(p)
  \/ \E p \in Procs : createInsert(p)
  \/ \E p \in Procs, user \in Users, id \in ReqIds :
        approveEditRequest(p, user, id, "msg")
  \/ \E p \in Procs : approveCommit(p)
  \/ \E p \in Procs : approveRespond(p)
  \/ \E p \in Procs, user \in Users, id \in ReqIds :
        rejectEditRequest(p, user, id, "msg")
  \/ \E p \in Procs : rejectUpdate(p)
  \/ \E user \in Users, status \in StatusInputs : getAllEditRequests(user, status)
  \/ \E user \in Users, id \in ReqIds : getEditRequestById(user, id)

SpecNotify == InitNotify /\ [][NextNotify]_vars

\* SpecFiles: the document routes on an invoice and a purchase order of user u1 that carry
\* an attachment each, with uploads and with record updates that throw
FileInputs == {Undefined, "upload1", "upload2"}
FilesKeys == {<<"invoice", "d1">>, <<"purchaseOrder", "d1">>}

InitFiles ==
  /\ now = 0
  /\ documents = [key \in FilesKeys |-> NewDocument(key[1], "u1", 0, key[1])]
  /\ editRequests = EmptyMap
  /\ nextId = 1
  /\ pc = [p \in Procs |-> "idle"]
  /\ local = [p \in Procs |-> NoLocal]
  /\ response = NoResponse
  /\ io = FALSE
  /\ published = NoEvent
  /\ files = {key[1] : key \in FilesKeys}

NextFiles ==
  \/ Tick
  \/ \E key \in FilesKeys, file \in FileInputs : createDocument("u1", key, file)
  \/ \E user \in Users, key \in FilesKeys, file \in FileInputs, storeFails \in BOOLEAN :
        updateDocument(user, key, file, storeFails)
  \/ \E user \in Users, key \in FilesKeys : deleteDocument(user, key)

SpecFiles == InitFiles /\ [][NextFiles]_vars

\* SpecRoute: the document routes of SpecFiles together with the request-edit route
NextRoute ==
  \/ NextFiles
  \/ \E p \in Procs, user \in Users, key \in FilesKeys, requestMessage \in MessageInputs :
        requestEditPermission(p, user, key[1], key[2], requestMessage)

SpecRoute == InitFiles /\ [][NextRoute]_vars

\* SpecOwner: one createEditRequest in flight on the invoice d1 while users u1 and u2
\* create, update and delete the invoice with that id
OwnerCreators == {"u1", "u2"}

NextOwner ==
  \/ \E user \in Users : createEditRequest(1, user, SeqKey[1], SeqKey[2], "msg")
  \/ createFindFirst(1)
  \/ createInsert(1)
  \/ \E user \in OwnerCreators : createDocument(user, SeqKey, Undefined)
  \/ \E user \in Users : updateDocument(user, SeqKey, Undefined, FALSE)
  \/ \E user \in Users : deleteDocument(user, SeqKey)

SpecOwner == InitNotify /\ [][NextOwner]_vars

\* ------------------------------------------------------------ properties
PendingOf(key) == {i \in RequestsOf(editRequests, key) : editRequests[i].status = "PENDING"}

\* the document a createEditRequest in flight at slot p is about
CreateKey(p) == <<local[p].documentType, local[p].documentId>>

\* the refusal that reports a conflicting state of the store
IsConflict(resp) ==
  /\ resp.status \in {400, 409}
  /\ resp.reason \in {"already pending", "already exists", "already resolved"}

\* C1: in every reachable state each document has at most one PENDING edit request.
C1_AtMostOnePending ==
  \A key \in DocKeys : Cardinality(PendingOf(key)) <= 1

\* a second createEditRequest for a document with a PENDING request has just been refused
C1_Witness ==
  /\ response.op = "createEditRequest"
  /\ IsConflict(response)
  /\ \E key \in DocKeys : Cardinality(PendingOf(key)) = 1

\* no stored state shows half of an approval: a grant next to a PENDING request, or an
\* APPROVED request next to a document without the grant
NoPartialApproval ==
  \A i \in DOMAIN editRequests :
     (HasTarget(editRequests[i]) /\ TargetKey(editRequests[i]) \in DOMAIN documents)
       => LET document == documents[TargetKey(editRequests[i])]
          IN /\ ~(document.allowEditing /\ editRequests[i].status = "PENDING")
             /\ ~(editRequests[i].status = "APPROVED" /\ ~document.allowEditing)

\* C2: when approveEditRequest answers success, the request (if still stored) is APPROVED and
\* its document has allowEditing = TRUE, and no stored state shows half of an approval.
C2_ApprovedAndGrantedOnSuccess ==
  /\ (response.op = "approveEditRequest" /\ response.status = 200
        /\ response.id \in DOMAIN editRequests)
       => /\ editRequests[response.id].status = "APPROVED"
          /\ TargetKey(editRequests[response.id]) \in DOMAIN documents
          /\ documents[TargetKey(editRequests[response.id])].allowEditing
  /\ NoPartialApproval

\* C3: in every step the status of a stored edit request either stays as it is or leaves
\* PENDING; APPROVED and REJECTED are never left.
C3_StatusLeavesOnlyPending ==
  [][\A i \in DOMAIN editRequests \cap DOMAIN editRequests' :
       editRequests'[i].status # editRequests[i].status
         => editRequests[i].status = "PENDING"]_vars

\* C4: of two approve/reject calls that both read the request as PENDING, the one whose write
\* comes second finds the request resolved, answers Conflict and writes nothing.
C4_SecondCommitFailsWithConflict ==
  [][\A p \in Procs :
       (/\ pc[p] \in {"ap_update", "rj_update"}
        /\ pc'[p] # pc[p]
        /\ local[p].id \in DOMAIN editRequests
        /\ editRequests[local[p].id].status # "PENDING")
         => /\ IsConflict(response')
            /\ editRequests' = editRequests
            /\ documents' = documents]_vars

C9_ResolvedRequestRefusesLaterCalls ==
  [][(/\ pc' = pc
      /\ response'.op \in {"approveEditRequest", "rejectEditRequest"}
      /\ Role(response'.user) = "ADMIN"
      /\ response'.id \in DOMAIN editRequests
      /\ editRequests[response'.id].status # "PENDING")
       => /\ IsConflict(response')
          /\ editRequests' = editRequests
          /\ documents' = documents]_vars

\* every call that arrives for a resolved request leaves the store as it is
ResolvedRequestKeptByLaterCalls ==
  [][(/\ pc' = pc
      /\ response'.op \in {"approveEditRequest", "rejectEditRequest"}
      /\ response'.id \in DOMAIN editRequests
      /\ editRequests[response'.id].status # "PENDING")
       => /\ response'.status \in {400, 403}
          /\ editRequests' = editRequests
          /\ documents' = documents]_vars

Times == {k * TickMs : k \in 0..MaxTicks}

InitCanEdit ==
  /\ now \in Times
  /\ \E userId \in Users, createdAt \in Times, allowEditing \in BOOLEAN,
        editableUntil \in Times \cup {NoDate} :
        /\ createdAt <= now
        /\ documents = Put(EmptyMap, <<"invoice", "d1">>,
                           [userId |-> userId, createdAt |-> createdAt,
                            allowEditing |-> allowEditing, editableUntil |-> editableUntil,
                            fileUrl |-> Undefined])
  /\ editRequests = EmptyMap
  /\ nextId = 1
  /\ pc = [p \in Procs |-> "idle"]
  /\ local = [p \in Procs |-> NoLocal]
  /\ response = NoResponse
  /\ io = FALSE
  /\ published = NoEvent
  /\ files = {}

NextCanEdit ==
  \/ Tick
  \/ \E user \in Users : updateDocument(user, <<"invoice", "d1">>, Undefined, FALSE)

SpecCanEdit == InitCanEdit /\ [][NextCanEdit]_vars

\* SpecGate: the update routes on every stored state of one document of user u1, of each
\* type: as created (no grant; editableUntil NULL for an invoice, createdAt + 24 h
\* otherwise) or as approved at some instant (grant until that instant + 24 h)
GateUploads == {Undefined, "upload1"}

InitGate ==
  /\ now \in Times
  /\ \E key \in DocKeys, createdAt \in Times, allowEditing \in BOOLEAN,
        editableUntil \in {k * TickMs : k \in 0..(MaxTicks + 2)} \cup {NoDate} :
        /\ createdAt <= now
        /\ IF allowEditing
           THEN \E approvedAt \in Times :
                   /\ createdAt <= approvedAt
                   /\ approvedAt <= now
                   /\ editableUntil = approvedAt + DEFAULT_EDIT_DURATION_MS
           ELSE editableUntil = NewDocument(key[1], "u1", createdAt, "attachment").editableUntil
        /\ documents = Put(EmptyMap, key,
                           [userId |-> "u1", createdAt |-> createdAt,
                            allowEditing |-> allowEditing, editableUntil |-> editableUntil,
                            fileUrl |-> "attachment"])
  /\ editRequests = EmptyMap
  /\ nextId = 1
  /\ pc = [p \in Procs |-> "idle"]
  /\ local = [p \in Procs |-> NoLocal]
  /\ response = NoResponse
  /\ io = FALSE
  /\ published = NoEvent
  /\ files = {"attachment"}

NextGate ==
  \/ Tick
  \/ \E user \in Users, key \in DocKeys, file \in GateUploads, storeFails \in BOOLEAN :
        updateDocument(user, key, file, storeFails)
  \/ \E user \in Users, key \in DocKeys, file \in GateUploads, storeFails \in BOOLEAN :
        updateInvoice(user, key, file, storeFails)

SpecGate == InitGate /\ [][NextGate]_vars

\* ---------------------------------------------------- properties, continued
\* C11: a createEditRequest call of the owner that reaches its insert when the document's
\* request has been resolved (the document has a request, none PENDING) is answered 201 and
\* stores a new PENDING request.
C11_NewRequestAfterResolution ==
  [][\A p \in Procs :
       (/\ pc[p] = "ce_create"
        /\ pc'[p] # pc[p]
        /\ CreateKey(p) \in DOMAIN documents
        /\ RequestsOf(editRequests, CreateKey(p)) # {}
        /\ PendingOf(CreateKey(p)) = {})
         => /\ response'.status = 201
            /\ \E i \in (DOMAIN editRequests') \ (DOMAIN editRequests) :
                  editRequests'[i].status = "PENDING"]_vars

\* the PENDING requests the user holds on documents other than key
PendingElsewhere(user, key) ==
  {i \in DOMAIN editRequests :
     /\ editRequests[i].status = "PENDING"
     /\ editRequests[i].requestedById = user
     /\ i \notin RequestsOf(editRequests, key)}

\* C12: a createEditRequest call for a document without a request, made while the requester
\* holds a PENDING request on another document, passes the pending check and is answered
\* 201 at its insert.
C12_PendingCheckScopedToDocument ==
  [][\A p \in Procs :
       (/\ pc[p] \in {"ce_findFirst", "ce_create"}
        /\ pc'[p] # pc[p]
        /\ CreateKey(p) \in DOMAIN documents
        /\ RequestsOf(editRequests, CreateKey(p)) = {}
        /\ PendingElsewhere(local[p].user, CreateKey(p)) # {})
         => IF pc[p] = "ce_findFirst"
            THEN pc'[p] = "ce_create"
            ELSE response'.status = 201 /\ response'.op = "createEditRequest"]_vars

\* the owner holds PENDING requests on two invoices, the second one just created
C12_Witness ==
  /\ response.op = "createEditRequest"
  /\ response.status = 201
  /\ \E i, j \in DOMAIN editRequests :
        /\ i # j
        /\ j = response.id
        /\ editRequests[i].status = "PENDING" /\ editRequests[j].status = "PENDING"
        /\ editRequests[i].requestedById = editRequests[j].requestedById
        /\ editRequests[i].invoiceId # Undefined /\ editRequests[j].invoiceId # Undefined

\* C13: approveEditRequest computes editableUntil as the instant of the call plus 24 hours,
\* and its commit writes allowEditing = TRUE and that editableUntil to the document the
\* request's foreign key names, every other document staying as it is.
C13_ApproveGrantsTargetOnly ==
  [][\A p \in Procs :
       /\ (pc[p] = "idle" /\ pc'[p] = "ap_update")
            => local'[p].editableUntil = now + 24 * 60 * 60 * 1000
       /\ (pc[p] = "ap_update" /\ pc'[p] = "ap_respond")
            => LET key == TargetKey(editRequests[local[p].id])
               IN documents' =
                    [documents EXCEPT ![key] =
                       [@ EXCEPT !.allowEditing = TRUE,
                                 !.editableUntil = local[p].editableUntil]]]_vars

\* an approval made 25 hours after the creation has been answered: the invoice is granted
\* until 49 hours, the purchase order is not
C13_Witness ==
  /\ response.op = "approveEditRequest"
  /\ response.status = 200
  /\ now = 25 * HourMs
  /\ documents[SeqKey].allowEditing
  /\ documents[SeqKey].editableUntil = 49 * HourMs
  /\ ~documents[<<"purchaseOrder", "d1">>].allowEditing

\* C14: the write of a rejectEditRequest call sets the request to REJECTED with the call's
\* responseMessage and the administrator's id and leaves every document as it is, so that
\* canEdit decides for every user as before.
C14_RejectWritesRequestOnly ==
  [][\A p \in Procs :
       (/\ pc[p] = "rj_update" /\ pc'[p] = "idle"
        /\ response'.op = "rejectEditRequest" /\ response'.status = 200)
         => /\ Role(local[p].user) = "ADMIN"
            /\ editRequests' =
                 [editRequests EXCEPT ![local[p].id] =
                    [@ EXCEPT !.status = "REJECTED",
                              !.responseMessage = local[p].msg,
                              !.adminUserId = local[p].user]]
            /\ documents' = documents
            /\ \A key \in DOMAIN documents, user \in Users :
                  canEdit(documents'[key], user, now').allowed
                    = canEdit(documents[key], user, now).allowed]_vars

\* a rejection has been answered after the initial window: the owner is denied as before
C14_Witness ==
  /\ response.op = "rejectEditRequest"
  /\ response.status = 200
  /\ response.id \in DOMAIN editRequests
  /\ editRequests[response.id].status = "REJECTED"
  /\ editRequests[response.id].responseMessage = "msg"
  /\ editRequests[response.id].adminUserId = "a1"
  /\ ~documents[SeqKey].allowEditing
  /\ ~canEdit(documents[SeqKey], "u1", now).allowed

\* C15: an approveEditRequest call that ends with the 500 answer has written nothing: the
\* requests and the documents are as before the call's transaction.
C15_FailedApproveWritesNothing ==
  [][\A p \in Procs :
       (pc[p] = "ap_update" /\ pc'[p] = "idle")
         => /\ response'.op = "approveEditRequest"
            /\ response'.status = 500
            /\ editRequests' = editRequests
            /\ documents' = documents]_vars

\* an approval has failed in the store: the request is PENDING, the document not granted
C15_Witness ==
  /\ response.op = "approveEditRequest"
  /\ response.status = 500
  /\ response.id \in DOMAIN editRequests
  /\ editRequests[response.id].status = "PENDING"
  /\ editRequests[response.id].adminUserId = Undefined
  /\ ~documents[TargetKey(editRequests[response.id])].allowEditing

\* C16: a createEditRequest call with a message for a stored document, made by a user who
\* is not its owner (an administrator included), ends at once with the 403 answer and
\* stores no request.
C16_NonOwnerCreateForbidden ==
  [][\A p \in Procs, user \in Users, key \in DOMAIN documents :
       (/\ createEditRequest(p, user, key[1], key[2], "msg")
        /\ documents[key].userId # user)
         => /\ response'.op = "createEditRequest"
            /\ response'.status = 403
            /\ pc'[p] = "idle"
            /\ editRequests' = editRequests]_vars

\* the administrator, who owns no document, has been refused; no request is stored
C16_Witness ==
  /\ response.op = "createEditRequest"
  /\ response.status = 403
  /\ response.user = "a1"
  /\ DOMAIN documents # {}
  /\ editRequests = EmptyMap

\* the insert of a create call has stored one new request: PENDING, requested by the
\* caller, without an administrator, and has answered 201 with its id
InsertedPending(p) ==
  /\ response'.op = "createEditRequest"
  /\ response'.status = 201
  /\ (DOMAIN editRequests') \ (DOMAIN editRequests) = {response'.id}
  /\ editRequests'[response'.id].status = "PENDING"
  /\ editRequests'[response'.id].requestedById = local[p].user
  /\ editRequests'[response'.id].adminUserId = Undefined
  /\ TargetKey(editRequests'[response'.id]) = CreateKey(p)
  /\ \A i \in DOMAIN editRequests : editRequests'[i] = editRequests[i]

\* C17: a createEditRequest call of the owner with a message that reaches its insert for a
\* stored document without a PENDING request stores one PENDING request of the caller,
\* without an administrator, and is answered 201.
C17_OwnerCreateInserts ==
  [][\A p \in Procs :
       (/\ pc[p] = "ce_create"
        /\ pc'[p] # pc[p]
        /\ CreateKey(p) \in DOMAIN documents
        /\ PendingOf(CreateKey(p)) = {})
         => InsertedPending(p)]_vars

\* the same for a document that has no request at all
CreateOnRequestFreeDocumentInserts ==
  [][\A p \in Procs :
       (/\ pc[p] = "ce_create"
        /\ pc'[p] # pc[p]
        /\ CreateKey(p) \in DOMAIN documents
        /\ RequestsOf(editRequests, CreateKey(p)) = {})
         => InsertedPending(p)]_vars

C19_CreateInsideWindowRefused ==
  [][\A p \in Procs, user \in Users, key \in DOMAIN documents :
       (/\ createEditRequest(p, user, key[1], key[2], "msg")
        /\ documents[key].userId = user
        /\ now - documents[key].createdAt < 24 * 60 * 60 * 1000)
         => /\ response'.op = "createEditRequest"
            /\ response'.status = 400
            /\ pc'[p] = "idle"
            /\ editRequests' = editRequests]_vars

\* C20: the steps of scenario A have the stated outcomes: the owner's update after the
\* window without a grant is answered 403 with needsPermissionRequest; the owner's create
\* for the document without a request stores a PENDING request and is answered 201; the
\* approval computes editableUntil as its instant plus 24 hours and its commit sets
\* allowEditing, that editableUntil and the status APPROVED; the owner's update before
\* editableUntil under the grant is answered 200.
C20_ScenarioA ==
  [][/\ \A key \in DOMAIN documents :
          (/\ updateDocument(documents[key].userId, key, Undefined, FALSE)
           /\ Role(documents[key].userId) = "USER"
           /\ now >= documents[key].createdAt + 24 * 60 * 60 * 1000)
            => /\ ~documents[key].allowEditing
                    => response'.status = 403 /\ response'.needsPermissionRequest
               /\ (documents[key].allowEditing /\ now < documents[key].editableUntil)
                    => response'.status = 200
     /\ \A p \in Procs :
          /\ (/\ pc[p] = "ce_create"
              /\ pc'[p] # pc[p]
              /\ CreateKey(p) \in DOMAIN documents
              /\ RequestsOf(editRequests, CreateKey(p)) = {})
               => InsertedPending(p)
          /\ (pc[p] = "idle" /\ pc'[p] = "ap_update")
               => local'[p].editableUntil = now + 24 * 60 * 60 * 1000
          /\ (pc[p] = "ap_update" /\ pc'[p] = "ap_respond")
               => /\ documents'[CreateKey(p)].allowEditing
                  /\ documents'[CreateKey(p)].editableUntil = local[p].editableUntil
                  /\ editRequests'[local[p].id].status = "APPROVED"]_vars

\* the end of scenario A: the request that the owner made is APPROVED, the grant made at
\* 25 hours runs until 49 hours, and the owner's update at 26 hours has been answered 200
C20_Witness ==
  /\ response.op = "updateDocument"
  /\ response.user = "u1"
  /\ response.status = 200
  /\ now = 26 * HourMs
  /\ documents[SeqKey].userId = "u1"
  /\ documents[SeqKey].createdAt = 0
  /\ documents[SeqKey].allowEditing
  /\ documents[SeqKey].editableUntil = 49 * HourMs
  /\ \E i \in RequestsOf(editRequests, SeqKey) :
        /\ editRequests[i].status = "APPROVED"
        /\ editRequests[i].requestedById = "u1"
        /\ editRequests[i].adminUserId = "a1"

\* a document row written in this step with other grant fields than it had
GrantFieldsWritten(key) ==
  /\ key \in DOMAIN documents
  /\ key \in DOMAIN documents'
  /\ \/ documents'[key].allowEditing # documents[key].allowEditing
     \/ documents'[key].editableUntil # documents[key].editableUntil

\* C26: only the commit of an approval writes allowEditing or editableUntil of a document;
\* a created document has the defaults (allowEditing false, editableUntil NULL) and an
\* update leaves both fields as they are.
C26_OnlyApproveWritesGrant ==
  [][\A key \in DOMAIN documents' :
       /\ key \notin DOMAIN documents
            => (/\ documents'[key].allowEditing = FALSE
                /\ documents'[key].editableUntil = NoDate)
       /\ GrantFieldsWritten(key)
            => \E p \in Procs : pc[p] = "ap_update" /\ pc'[p] = "ap_respond"]_vars

\* the fields of a stored document are written by the commit of an approval only
StoredGrantWrittenByApproveOnly ==
  [][\A key \in DOMAIN documents' :
       GrantFieldsWritten(key)
         => \E p \in Procs : pc[p] = "ap_update" /\ pc'[p] = "ap_respond"]_vars

\* every edit request references a stored document
RequestsReferenceDocuments ==
  \A i \in DOMAIN editRequests :
     HasTarget(editRequests[i]) /\ TargetKey(editRequests[i]) \in DOMAIN documents

\* C27: an edit request leaves the store only in the step that deletes its document, the
\* deletion of a document leaves no edit request that references it, and in every
\* reachable state each edit request references a stored document.
C27_RequestsRemovedByCascadeOnly ==
  /\ RequestsReferenceDocuments
  /\ [][/\ \A i \in DOMAIN editRequests \ DOMAIN editRequests' :
              /\ TargetKey(editRequests[i]) \in DOMAIN documents
              /\ TargetKey(editRequests[i]) \notin DOMAIN documents'
        /\ \A key \in DOMAIN documents \ DOMAIN documents' :
              RequestsOf(editRequests', key) = {}
        /\ RequestsReferenceDocuments']_vars

\* the only request created so far is gone with the deletion of its document
C27_Witness ==
  /\ response.op = "deleteDocument"
  /\ response.status = 200
  /\ nextId = 2
  /\ DOMAIN editRequests = {}

\* C28: a deleteDocument call of a user who is neither the owner nor an ADMIN is answered
\* 403 and leaves documents and edit requests as they are; a document leaves the store only
\* in a step that answers the owner's or an administrator's delete call.
C28_DeleteByOwnerOrAdminOnly ==
  [][/\ \A key \in DOMAIN documents \ DOMAIN documents' :
          /\ response'.op = "deleteDocument"
          /\ response'.status = 200
          /\ (response'.user = documents[key].userId \/ Role(response'.user) = "ADMIN")
     /\ \A user \in Users, key \in DOMAIN documents :
          (/\ deleteDocument(user, key)
           /\ user # documents[key].userId
           /\ Role(user) # "ADMIN")
            => (/\ response'.status = 403
                /\ UNCHANGED <<documents, editRequests>>)]_vars

\* a user who is not the owner is refused the deletion of a document with a PENDING request
C28_Witness ==
  /\ response.op = "deleteDocument"
  /\ response.status = 403
  /\ response.user = "u2"
  /\ \E key \in DOMAIN documents :
        documents[key].userId = "u1" /\ PendingOf(key) # {}

\* adminUserId is NULL exactly on the PENDING requests
AdminSetIffResolved ==
  \A i \in DOMAIN editRequests :
     editRequests[i].adminUserId = Undefined <=> editRequests[i].status = "PENDING"

\* C30: in every reachable state adminUserId is NULL exactly when the status is PENDING, and
\* the step of approve or reject that changes the status writes the acting administrator
\* into adminUserId.
C30_AdminRecordedWithResolution ==
  /\ AdminSetIffResolved
  /\ [][/\ AdminSetIffResolved'
        /\ \A i \in DOMAIN editRequests \cap DOMAIN editRequests' :
             editRequests'[i].status # editRequests[i].status
               => \E p \in Procs :
                    /\ pc[p] \in {"ap_update", "rj_update"}
                    /\ pc'[p] # pc[p]
                    /\ local[p].id = i
                    /\ adminOnly(local[p].user)
                    /\ editRequests'[i].adminUserId = local[p].user]_vars

\* an approval has committed: the request is APPROVED and carries the administrator whose
\* handler is about to answer
C30_Witness ==
  \E p \in Procs :
     /\ pc[p] = "ap_respond"
     /\ local[p].id \in DOMAIN editRequests
     /\ editRequests[local[p].id].status = "APPROVED"
     /\ editRequests[local[p].id].adminUserId = local[p].user
     /\ adminOnly(local[p].user)

\* C32: a createEditRequest refused for a duplicate pending request and an approve or
\* reject refused for an already resolved request are answered 409, and a call refused for
\* a missing message is answered 400.
C32_ConflictIs409 ==
  /\ response.reason \in {"already pending", "already resolved"} => response.status = 409
  /\ response.reason = "required" => response.status = 400

\* the one refusal the handlers answer with 409: the unique index on the foreign key column
UniqueViolationIs409 ==
  response.reason = "already exists" => response.status = 409

\* ------------------------------------------------- properties of SpecOwner
\* C37: in every reachable state the requestedById of each edit request is the userId of the
\* document the request references.
C37_RequesterOwnsDocument ==
  \A i \in DOMAIN editRequests :
     TargetKey(editRequests[i]) \in DOMAIN documents
       => editRequests[i].requestedById = documents[TargetKey(editRequests[i])].userId

\* while the document a request was checked against stays in the store, the stored request
\* is its owner's
RequesterOwnedCheckedDocument ==
  [][(/\ pc[1] = "ce_create" /\ pc'[1] = "idle"
      /\ editRequests' # editRequests)
       => editRequests'[nextId].requestedById = local[1].user]_vars

\* ------------------------------------------------- properties of SpecFiles
\* the attachments of the stored documents that this step removes from the uploads directory
ReplacedAttachments(key) ==
  {documents[key].fileUrl} \ ({Undefined} \cup files')

\* C29: an update removes the attachment of its document from the uploads directory only
\* when the update of the record has committed (the step answers 200 and the record names
\* the new file); an update that fails leaves the old attachment in place.
C29_OldAttachmentDeletedAfterCommit ==
  [][\A key \in DOMAIN documents :
       (response'.op = "updateDocument" /\ ReplacedAttachments(key) # {})
         => (/\ response'.status = 200
             /\ documents'[key].fileUrl # documents[key].fileUrl
             /\ documents'[key].fileUrl \in files')]_vars

\* updateInvoice keeps to the order: the old file goes only with a committed update
InvoiceAttachmentDeletedAfterCommit ==
  [][\A key \in DOMAIN documents :
       (/\ response'.op = "updateDocument"
        /\ key[1] = "invoice"
        /\ ReplacedAttachments(key) # {})
         => (/\ response'.status = 200
             /\ documents'[key].fileUrl # documents[key].fileUrl
             /\ documents'[key].fileUrl \in files')]_vars

\* C38: an update leaves userId and createdAt of every document as they are, so the 24 hour
\* window of a document is the same before and after an update.
C38_UpdateKeepsOwnerAndCreatedAt ==
  [][response'.op = "updateDocument"
       => \A key \in DOMAIN documents :
            /\ key \in DOMAIN documents'
            /\ documents'[key].userId = documents[key].userId
            /\ documents'[key].createdAt = documents[key].createdAt]_vars

\* the owner has replaced the attachment of a document 12 hours or more after its creation:
\* the record names the new file and keeps its creation instant
C38_Witness ==
  /\ response.op = "updateDocument"
  /\ response.status = 200
  /\ \E key \in DOMAIN documents :
        /\ documents[key].userId = response.user
        /\ documents[key].fileUrl \in {"upload1", "upload2"}
        /\ documents[key].createdAt = 0
        /\ now >= TickMs

\* ------------------------------------------------- properties of SpecRoute
\* C33: a call of the request-edit route by the owner of the stored document :id with a
\* non-empty message is not refused for a missing field: it goes on to the pending check
\* of createEditRequest.
C33_RouteHandsIdToCreate ==
  [][\A p \in Procs, key \in DOMAIN documents :
       requestEditPermission(p, documents[key].userId, key[1], key[2], "msg")
         => (/\ ~(response'.status = 400 /\ response'.reason = "required")
             /\ pc'[p] = "ce_findFirst"
             /\ local'[p].documentId = key[2])]_vars

\* every call of the request-edit route is answered 400 for a missing field
RouteAlwaysRefused ==
  response.op = "createEditRequest" => (response.status = 400 /\ response.reason = "required")

\* ------------------------------------------------- properties of SpecGate
\* C35: no update is committed for a user for whom canEdit denies on the stored document
\* and the clock of the call: the step of such a call does not answer 200 and writes
\* neither the record nor the uploads directory, for an invoice, a purchase order and a
\* stock register entry.
C35_UpdateGatedByCanEdit ==
  [][\A key \in DOMAIN documents :
       (/\ response'.op = "updateDocument"
        /\ ~canEdit(documents[key], response'.user, now).allowed)
         => (/\ response'.status # 200
             /\ UNCHANGED <<documents, files>>)]_vars

\* the route that names canEdit before the controller refuses every denied call with 403
GatedRouteRefusesDenied ==
  [][\A user \in Users, key \in DOMAIN documents, file \in GateUploads,
        storeFails \in BOOLEAN :
       (/\ updateDocument(user, key, file, storeFails)
        /\ ~canEdit(documents[key], user, now).allowed)
         => (/\ response'.status = 403
             /\ UNCHANGED <<documents, files>>)]_vars

\* ------------------------------------------------ properties of SpecCanEdit
TheDocument == documents[<<"invoice", "d1">>]

\* the rule for an owner with role USER: inside 24 hours of createdAt, or under a grant
\* that has no expiry or has not reached it
OwnerMayEdit(document, t) ==
  \/ t < document.createdAt + 24 * 60 * 60 * 1000
  \/ /\ document.allowEditing
     /\ (document.editableUntil = NoDate \/ t < document.editableUntil)

\* C6: for the owner with role USER canEdit allows exactly when now is before
\* createdAt + 24h or a grant is set and not expired; the update is answered accordingly.
C6_OwnerWindowOrGrant ==
  /\ \A user \in Users :
        (Role(user) = "USER" /\ TheDocument.userId = user)
          => (canEdit(TheDocument, user, now).allowed <=> OwnerMayEdit(TheDocument, now))
  /\ (response.op = "updateDocument" /\ Role(response.user) = "USER"
        /\ TheDocument.userId = response.user)
       => (response.status = 200 <=> OwnerMayEdit(TheDocument, now))

\* the owner is denied at the instant the grant expires, the initial window being over
C6_Witness ==
  /\ response.op = "updateDocument"
  /\ response.status = 403
  /\ Role(response.user) = "USER"
  /\ TheDocument.userId = response.user
  /\ TheDocument.allowEditing
  /\ now = TheDocument.editableUntil
  /\ now >= TheDocument.createdAt + 24 * 60 * 60 * 1000

\* C7: for a user with role ADMIN canEdit allows whatever the owner, the age and the grant
\* of the document are; the update is answered 200.
C7_AdminAlwaysAllowed ==
  /\ \A user \in Users :
        Role(user) = "ADMIN" => canEdit(TheDocument, user, now).allowed
  /\ (response.op = "updateDocument" /\ Role(response.user) = "ADMIN")
       => response.status = 200

\* an administrator updates another user's document after its window, without a grant
C7_Witness ==
  /\ response.op = "updateDocument"
  /\ response.status = 200
  /\ Role(response.user) = "ADMIN"
  /\ TheDocument.userId # response.user
  /\ ~TheDocument.allowEditing
  /\ now >= TheDocument.createdAt + 24 * 60 * 60 * 1000

\* C8: for a user with role USER who is not the owner canEdit denies whatever the age and
\* the grant of the document are; the update is answered 403.
C8_NonOwnerAlwaysDenied ==
  /\ \A user \in Users :
        (Role(user) = "USER" /\ TheDocument.userId # user)
          => ~canEdit(TheDocument, user, now).allowed
  /\ (response.op = "updateDocument" /\ Role(response.user) = "USER"
        /\ TheDocument.userId # response.user)
       => response.status = 403

\* a user who is not the owner is denied inside the window and under an unexpired grant
C8_Witness ==
  /\ response.op = "updateDocument"
  /\ response.status = 403
  /\ Role(response.user) = "USER"
  /\ TheDocument.userId # response.user
  /\ now < TheDocument.createdAt + 24 * 60 * 60 * 1000
  /\ TheDocument.allowEditing
  /\ TheDocument.editableUntil # NoDate /\ now < TheDocument.editableUntil

\* C21: whenever canEdit denies the owner, the needsPermissionRequest it reports equals
\* (not inside the 24 hour window and allowEditing not set): true past the window without
\* a grant, false under a grant whose editableUntil has passed. The 403 of the update
\* carries that flag.
C21_NeedsPermissionFlag ==
  /\ \A user \in Users :
        (TheDocument.userId = user /\ ~canEdit(TheDocument, user, now).allowed)
          => (canEdit(TheDocument, user, now).needsPermissionRequest
                <=> (/\ ~(now < TheDocument.createdAt + 24 * 60 * 60 * 1000)
                     /\ ~TheDocument.allowEditing))
  /\ (response.op = "updateDocument" /\ response.status = 403
        /\ TheDocument.userId = response.user)
       => (response.needsPermissionRequest
             <=> (/\ ~(now < TheDocument.createdAt + 24 * 60 * 60 * 1000)
                  /\ ~TheDocument.allowEditing))

\* the owner is denied under an expired grant and is not told to request permission
C21_Witness ==
  /\ response.op = "updateDocument"
  /\ response.status = 403
  /\ TheDocument.userId = response.user
  /\ TheDocument.allowEditing
  /\ TheDocument.editableUntil # NoDate /\ now >= TheDocument.editableUntil
  /\ ~response.needsPermissionRequest

\* the owner is denied past the window without a grant and is told to request permission
NeedsPermissionReported ==
  /\ response.op = "updateDocument"
  /\ response.status = 403
  /\ TheDocument.userId = response.user
  /\ ~TheDocument.allowEditing
  /\ response.needsPermissionRequest

\* the foreign key columns of a request that are not NULL
TargetColumns(r) ==
  {c \in {"invoiceId", "purchaseOrderId", "stockRegisterId"} : r[c] # Undefined}

\* C31: in every reachable state each edit request has exactly one of invoiceId,
\* purchaseOrderId and stockRegisterId set.
C31_ExactlyOneTarget ==
  \A i \in DOMAIN editRequests : Cardinality(TargetColumns(editRequests[i])) = 1

\* the table holds a request on an invoice and a request on a purchase order
C31_Witness ==
  \E i, j \in DOMAIN editRequests :
     /\ TargetColumns(editRequests[i]) = {"invoiceId"}
     /\ TargetColumns(editRequests[j]) = {"purchaseOrderId"}

\* C34: rejectEditRequest tests for an unknown request, then for a resolved request, then
\* for a missing reason: an administrator's reject call without a responseMessage is
\* answered 404 on an unknown id and with the conflict refusal on a resolved request.
C34_RejectOrderOfChecks ==
  [][\A id \in ReqIds, responseMessage \in {Undefined, ""} :
       rejectEditRequest(1, "a1", id, responseMessage)
         => (/\ id \notin DOMAIN editRequests => response'.status = 404
             /\ (id \in DOMAIN editRequests /\ editRequests[id].status # "PENDING")
                  => IsConflict(response'))]_vars

\* with a responseMessage the reject call reports the unknown id and the resolved request
RejectWithReasonReportsState ==
  [][\A id \in ReqIds :
       rejectEditRequest(1, "a1", id, "msg")
         => (/\ id \notin DOMAIN editRequests => response'.status = 404
             /\ (id \in DOMAIN editRequests /\ editRequests[id].status # "PENDING")
                  => IsConflict(response'))]_vars

\* C36: allowEditing of a stored document never goes from true to false, whatever the
\* update, reject, createEditRequest or the clock does; so the owner who is denied on a
\* document that has been granted once is answered with needsPermissionRequest = false.
C36_AllowEditingMonotonic ==
  [][/\ \A key \in DOMAIN documents \cap DOMAIN documents' :
          documents[key].allowEditing => documents'[key].allowEditing
     /\ (/\ response'.op = "updateDocument"
         /\ response'.status = 403
         /\ documents[SeqKey].userId = response'.user
         /\ \E i \in RequestsOf(editRequests, SeqKey) : editRequests[i].status = "APPROVED")
          => ~response'.needsPermissionRequest]_vars

\* the owner has updated the invoice under the grant, the grant has expired, and the
\* owner's next update is denied without the hint to request permission
C36_Witness ==
  /\ response.op = "updateDocument"
  /\ response.status = 403
  /\ response.user = documents[SeqKey].userId
  /\ ~response.needsPermissionRequest
  /\ documents[SeqKey].allowEditing
  /\ documents[SeqKey].editableUntil # NoDate
  /\ now >= documents[SeqKey].editableUntil
  /\ \E i \in RequestsOf(editRequests, SeqKey) : editRequests[i].status = "APPROVED"

\* ------------------------------------------------- properties of SpecNotify
\* C22: a call of a user whose role is not ADMIN to the listing, the read, approve or
\* reject is answered 403 in the step that receives it, that step changes no edit request
\* and no document, and no approve or reject in flight belongs to such a user.
C22_NonAdminRefused ==
  [][/\ (/\ response'.op \in {"getAllEditRequests", "getEditRequestById",
                              "approveEditRequest", "rejectEditRequest"}
         /\ Role(response'.user) # "ADMIN")
        => (response'.status = 403 /\ UNCHANGED <<editRequests, documents>>)
     /\ \A p \in Procs :
          pc'[p] \in {"ap_update", "ap_respond", "rj_update"}
            => Role(local'[p].user) = "ADMIN"]_vars

\* the owner of a document with a PENDING request is refused the approval of it
C22_Witness ==
  /\ response.op = "approveEditRequest"
  /\ response.status = 403
  /\ response.user = "u1"
  /\ response.id \in DOMAIN editRequests
  /\ editRequests[response.id].status = "PENDING"
  /\ editRequests[response.id].requestedById = "u1"

WritesKeptAfterFailedPublish ==
  [][\A p \in Procs :
       (pc[p] = "ap_respond" /\ pc'[p] = "idle") => UNCHANGED <<editRequests, documents>>]_vars

ApprovedEventFollowsCommit ==
  [][published'.status = "APPROVED"
       => \E p \in Procs : /\ pc[p] = "ap_respond" /\ pc'[p] = "idle"
                            /\ published'.id = local[p].id]_vars

\* a step publishes what its response announces
TransitionPublished ==
  /\ (response'.op = "createEditRequest" /\ response'.status = 201)
       => published' = NewRequestEvent(response'.id)
  /\ (response'.op = "approveEditRequest" /\ response'.status = 200)
       => published' = UpdateEvent(response'.id, "APPROVED")
  /\ (response'.op = "rejectEditRequest" /\ response'.status = 200)
       => published' = UpdateEvent(response'.id, "REJECTED")
  /\ response'.status \notin {0, 200, 201} => published' = NoEvent

\* C25: a createEditRequest answered 201 publishes the new-request event to the
\* administrators' room, an approveEditRequest or rejectEditRequest answered 200 publishes
\* the event named after the request with the new status, and a step that answers with a
\* failure publishes nothing.
C25_EveryTransitionPublished == [][TransitionPublished]_vars

\* with a Socket.IO server in global.io every transition answered with success is published
PublishedWhenInitialised ==
  [][io => TransitionPublished]_vars

====
